---- MODULE Spec2Model ----
(***************************************************************************)
(* AptConfigurer (subiquity/server/apt.py): the configure / deconfigure    *)
(* cycle of the installer's apt staging, over a small model of the target  *)
(* filesystem (overlay and bind mounts, temp directories, etc/apt and      *)
(* var/lib/apt/lists).                                                      *)
(***************************************************************************)
EXTENDS Integers, Sequences, FiniteSets, TLC

\* ---------------------------------------------------------------- bounds
\* Number of names tempfile.mkdtemp can choose from.
NumTmpNames == 3

\* Number of get_storage calls followed.
MaxCalls == 2

TmpNames == 1..NumTmpNames

\* ------------------------------------------------------- paths and texts
ETC_APT == "etc/apt"
CDROM == "cdrom"
LISTS == "var/lib/apt/lists"

SOURCES_LIST == "sources.list"
ORIGINAL_LIST == "sources.list.d/original.list"
APT_PROXY == "apt.conf.d/90curtin-aptproxy"
INDEX == "index"

Dirs == {ETC_APT, LISTS}
Files == {SOURCES_LIST, ORIGINAL_LIST, APT_PROXY, INDEX}

\* A file's content is a sequence of tokens; Absent stands for "no such file".
Absent == <<>>
ImageText == <<"deb", "http://archive.ubuntu.com/ubuntu", "main", "\n">>
MirrorText == <<"deb", "http://mirror.example/ubuntu", "main", "restricted", "\n">>
ProxyText == <<"Acquire::http::Proxy", "http://proxy:3128", "\n">>

\* lsb_release()['codename']
Codenames == {"focal", "jammy"}

\* f'deb [check-date=no] file:///cdrom {codename} main restricted\n'
SourcesLineNoCheckDate(codename) ==
    <<"deb", "file:///cdrom", codename, "main", "restricted", "\n">>

SourcesLine(codename) ==
    <<"deb", "[check-date=no]", "file:///cdrom", codename, "main",
      "restricted", "\n">>

\* ------------------------------------------------------------------ state
VARIABLES
    pc,           \* position of the configure / deconfigure coroutine
    _mounts,      \* AptConfigurer._mounts
    _tdirs,       \* AptConfigurer._tdirs
    has_network,  \* app.base_model.network.has_network
    dry_run,      \* app.opts.dry_run
    fs,           \* target filesystem: base contents and the mount stack
    tmpOnDisk,    \* temp directories that exist in the scratch location
    cdromDir,     \* whether <target>/cdrom exists
    codename,     \* local variable codename of configure
    branch,       \* which arm of the has_network test configure took
    failedAt,     \* step of configure that raised; NoStep when none did
    i,            \* deconfigure: mounts still to unmount
    j,            \* deconfigure: temp directories already handled
    oslog,        \* every command and OS call issued so far, in order
    snap,         \* history: directory contents at entry and at staging
    saved_config, \* Prober.saved_config
    probe_types,  \* argument of the last get_storage call
    result,       \* value the last get_storage call returned
    ncalls        \* number of get_storage calls made

vars == <<pc, _mounts, _tdirs, has_network, dry_run, fs, tmpOnDisk, cdromDir,
          codename, branch, failedAt, i, j, oslog, snap,
          saved_config, probe_types, result, ncalls>>

proberVars == <<saved_config, probe_types, result, ncalls>>

aptVars == <<pc, _mounts, _tdirs, has_network, dry_run, fs, tmpOnDisk, cdromDir,
             codename, branch, failedAt, i, j, oslog, snap>>

NoStep == 0

\* ------------------------------------------------------ filesystem model
EmptyDir == [f \in Files |-> Absent]

RECURSIVE TopOverlay(_, _, _)
\* index of the topmost overlay mounted on dir among stack[1..n]; 0 if none
TopOverlay(stack, dir, n) ==
    IF n = 0 THEN 0
    ELSE IF stack[n].mountpoint = dir /\ stack[n].type = "overlay" THEN n
    ELSE TopOverlay(stack, dir, n - 1)

RECURSIVE VisibleBelow(_, _, _)
\* contents of dir as seen through the mounts stack[1..n]
VisibleBelow(f, dir, n) ==
    LET k == TopOverlay(f.mounted, dir, n) IN
    IF k = 0 THEN f.base[dir]
    ELSE LET lower == VisibleBelow(f, dir, k - 1)
             m == f.mounted[k]
         IN [x \in Files |->
                IF x \in m.white THEN Absent
                ELSE IF m.upper[x] # Absent THEN m.upper[x]
                ELSE lower[x]]

Visible(f, dir) == VisibleBelow(f, dir, Len(f.mounted))

Exists(f, dir, name) == Visible(f, dir)[name] # Absent

FsWrite(f, dir, name, text) ==
    LET k == TopOverlay(f.mounted, dir, Len(f.mounted)) IN
    IF k = 0 THEN [f EXCEPT !.base[dir][name] = text]
    ELSE [f EXCEPT !.mounted[k].upper[name] = text,
                   !.mounted[k].white = @ \ {name}]

FsUnlink(f, dir, name) ==
    LET k == TopOverlay(f.mounted, dir, Len(f.mounted)) IN
    IF k = 0 THEN [f EXCEPT !.base[dir][name] = Absent]
    ELSE [f EXCEPT !.mounted[k].upper[name] = Absent,
                   !.mounted[k].white = @ \cup {name}]

FsRename(f, dir, src, dst) ==
    FsUnlink(FsWrite(f, dir, dst, Visible(f, dir)[src]), dir, src)

FsMount(f, args) ==
    [f EXCEPT !.mounted = Append(@, [mountpoint |-> args.mountpoint,
                                      type |-> args.type,
                                      device |-> args.device,
                                      tdir |-> args.tdir,
                                      upper |-> EmptyDir,
                                      white |-> {}])]

RECURSIVE TopMount(_, _, _)
TopMount(stack, mp, n) ==
    IF n = 0 THEN 0
    ELSE IF stack[n].mountpoint = mp THEN n
    ELSE TopMount(stack, mp, n - 1)

IsMounted(f, mp) == TopMount(f.mounted, mp, Len(f.mounted)) # 0

\* umount mp: detaches the topmost mount on mp
FsUmount(f, mp) ==
    LET k == TopMount(f.mounted, mp, Len(f.mounted)) IN
    [f EXCEPT !.mounted = [n \in 1..(Len(@) - 1) |->
                              IF n < k THEN @[n] ELSE @[n + 1]]]

MountedPoints(f) == [n \in 1..Len(f.mounted) |-> f.mounted[n].mountpoint]

\* in-target apt-get update: rebuilds the index from the visible sources
AptGetUpdate(f) ==
    FsWrite(f, LISTS, INDEX, Visible(f, ETC_APT)[SOURCES_LIST]
                             \o Visible(f, ETC_APT)[ORIGINAL_LIST])

Entry(op, target, arg, ok) ==
    [op |-> op, target |-> target, arg |-> arg, ok |-> ok]

\* --------------------------------------------------------- AptConfigurer
\* tdir(): self._tdirs.append(d)
TdirForgotten(pool, d) == pool

TdirRecordReset(pool, d) == <<d>>

TdirRecord(pool, d) == Append(pool, d)

\* mount(): the append runs only when the awaited command did not raise
MountResultEager(ledger, mountpoint, ok) == Append(ledger, mountpoint)

MountResultFront(ledger, mountpoint, ok) ==
    IF ok THEN <<mountpoint>> \o ledger ELSE ledger

MountResultTwice(ledger, mountpoint, ok) ==
    IF ok THEN Append(Append(ledger, mountpoint), mountpoint) ELSE ledger

MountResult(ledger, mountpoint, ok) ==
    IF ok THEN Append(ledger, mountpoint) ELSE ledger

\* setup_overlay(): the arguments of the overlay mount
OverlayArgsOnTmp(dir, d) ==
    [device |-> "overlay", mountpoint |-> "tmp", type |-> "overlay",
     options |-> "lowerdir,upperdir,workdir", tdir |-> d]

OverlayArgsOnLists(dir, d) ==
    [device |-> "overlay", mountpoint |-> LISTS, type |-> "overlay",
     options |-> "lowerdir,upperdir,workdir", tdir |-> d]

OverlayArgs(dir, d) ==
    [device |-> "overlay", mountpoint |-> dir, type |-> "overlay",
     options |-> "lowerdir,upperdir,workdir", tdir |-> d]

BindArgs ==
    [device |-> "/cdrom", mountpoint |-> CDROM, type |-> "none",
     options |-> "bind", tdir |-> 0]

\* configure, has_network arm: os.rename(sources.list, original.list)
BranchNetwork(f) == FsRename(f, ETC_APT, SOURCES_LIST, ORIGINAL_LIST)

\* configure, no-network arm: unlink the proxy fragment when it exists
BranchNoNetworkKeepProxy(f) == f

BranchNoNetwork(f) ==
    IF Exists(f, ETC_APT, APT_PROXY) THEN FsUnlink(f, ETC_APT, APT_PROXY)
    ELSE f

\* deconfigure: for m in reversed(self._mounts)
RECURSIVE Reverse(_)
Reverse(s) == IF s = <<>> THEN <<>> ELSE Append(Reverse(Tail(s)), Head(s))

UnmountOrderForward(ledger) == ledger

UnmountOrder(ledger) == Reverse(ledger)

\* deconfigure: if not self.app.opts.dry_run
RemovesMediaDirAlways(dry) == TRUE

RemovesMediaDirInverted(dry) == dry

RemovesMediaDir(dry) == ~dry

\* configure: if self.app.base_model.network.has_network, read at step 5
TakesNetworkArm(net) == net

\* deconfigure: if self.app.base_model.network.has_network, read again
RefreshWantedAsConfigured(net) == branch = "network"

RefreshWanted(net) == net

\* ----------------------------------------------------------------- Prober
\* keys of the storage section of a machine config, and the values under them
ProbeKeys == {"blockdev", "filesystem", "lvm"}

EmptyMapping == {}

StorageValues == {EmptyMapping, {"sda"}}

\* probe_types=None, or a collection of keys
NoneTypes == [given |-> FALSE, types |-> {}]

ProbeTypeArgs ==
    {NoneTypes} \cup {[given |-> TRUE, types |-> t] : t \in SUBSET ProbeKeys}

NoStorage == [k \in {} |-> EmptyMapping]

\* self.saved_config = None
NoConfig == [loaded |-> FALSE, storage |-> NoStorage]

\* get_storage with a saved config: the value returned and the saved storage
\* section as the call leaves it
GetStorageAliased(storage, types) ==
    LET r == IF types.given
             THEN [k \in DOMAIN storage |->
                     IF k \notin types.types THEN EmptyMapping ELSE storage[k]]
             ELSE storage
    IN [result |-> r, storage |-> r]

GetStorage(storage, types) ==
    LET r == IF types.given
             THEN [k \in DOMAIN storage |->
                     IF k \notin types.types THEN EmptyMapping ELSE storage[k]]
             ELSE storage
    IN [result |-> r, storage |-> storage]

Init ==
    /\ pc = "idle"
    /\ _mounts = <<>>
    /\ _tdirs = <<>>
    /\ has_network \in BOOLEAN
    /\ dry_run \in BOOLEAN
    /\ \E src \in {Absent, ImageText}, px \in {Absent, ProxyText},
          idx \in {Absent, ImageText} :
          fs = [base |-> [d \in Dirs |->
                           IF d = ETC_APT
                           THEN [EmptyDir EXCEPT ![SOURCES_LIST] = src,
                                                 ![APT_PROXY] = px]
                           ELSE [EmptyDir EXCEPT ![INDEX] = idx]],
                mounted |-> <<>>]
    /\ tmpOnDisk \in {{}, {1}}
    /\ cdromDir \in BOOLEAN
    /\ codename = ""
    /\ branch = "none"
    /\ failedAt = NoStep
    /\ i = 0
    /\ j = 0
    /\ oslog = <<>>
    /\ snap = [etc0 |-> fs.base[ETC_APT], lists0 |-> fs.base[LISTS],
               etcStaged |-> EmptyDir, tmp0 |-> tmpOnDisk,
               cdrom0 |-> cdromDir, net0 |-> has_network]
    /\ saved_config = NoConfig
    /\ probe_types = NoneTypes
    /\ result = NoStorage
    /\ ncalls = 0

\* steps 1 and 2: write the curtin config, run curtin apt-config
ConfigureAptConfig ==
    /\ UNCHANGED proberVars
    /\ pc = "idle"
    /\ \E ok \in BOOLEAN, src \in {"keep", "generate"}, px \in {Absent, ProxyText} :
         /\ fs' = IF ok
                  THEN LET f1 == IF src = "generate"
                                 THEN FsWrite(fs, ETC_APT, SOURCES_LIST, MirrorText)
                                 ELSE fs
                       IN [f1 EXCEPT !.base[ETC_APT][APT_PROXY] = px]
                  ELSE fs
         /\ oslog' = oslog \o <<Entry("write", "subiquity-curtin-apt.conf", 0, TRUE),
                                Entry("curtin", "apt-config", 0, ok)>>
         /\ pc' = IF ok THEN "cfg3" ELSE "cfg_failed"
         /\ failedAt' = IF ok THEN NoStep ELSE 2
    /\ snap' = [snap EXCEPT !.net0 = has_network]
    /\ UNCHANGED <<_mounts, _tdirs, has_network, dry_run, tmpOnDisk, cdromDir,
                   codename, branch, i, j>>

\* setup_overlay(dir), called at the given step on filesystem f
SetupOverlay(f, dir, step, next) ==
    \E d \in TmpNames \ tmpOnDisk, ok \in BOOLEAN :
       LET args == OverlayArgs(dir, d) IN
       /\ tmpOnDisk' = tmpOnDisk \cup {d}
       /\ _tdirs' = TdirRecord(_tdirs, d)
       /\ fs' = IF ok THEN FsMount(f, args) ELSE f
       /\ _mounts' = MountResult(_mounts, args.mountpoint, ok)
       /\ oslog' = oslog \o <<Entry("mkdtemp", "tmp", d, TRUE),
                              Entry("mkdir", "work", d, TRUE),
                              Entry("mkdir", "upper", d, TRUE),
                              Entry("mount", args.mountpoint, d, ok)>>
       /\ pc' = IF ok THEN next ELSE "cfg_failed"
       /\ failedAt' = IF ok THEN failedAt ELSE step

\* step 3: overlay over <target>/etc/apt
ConfigureEtcOverlay ==
    /\ UNCHANGED proberVars
    /\ pc = "cfg3"
    /\ SetupOverlay(fs, ETC_APT, 3, "cfg4")
    /\ snap' = [snap EXCEPT !.etcStaged = Visible(fs, ETC_APT)]
    /\ UNCHANGED <<has_network, dry_run, cdromDir, codename, branch, i, j>>

\* step 4: os.mkdir(<target>/cdrom), bind-mount /cdrom on it
ConfigureMediaMount ==
    /\ UNCHANGED proberVars
    /\ pc = "cfg4"
    /\ \/ /\ cdromDir                       \* FileExistsError
          /\ oslog' = Append(oslog, Entry("mkdir", CDROM, 0, FALSE))
          /\ pc' = "cfg_failed"
          /\ failedAt' = 4
          /\ UNCHANGED <<cdromDir, fs, _mounts>>
       \/ /\ ~cdromDir
          /\ \E ok \in BOOLEAN :
               /\ cdromDir' = TRUE
               /\ fs' = IF ok THEN FsMount(fs, BindArgs) ELSE fs
               /\ _mounts' = MountResult(_mounts, BindArgs.mountpoint, ok)
               /\ oslog' = oslog \o <<Entry("mkdir", CDROM, 0, TRUE),
                                      Entry("mount", CDROM, 0, ok)>>
               /\ pc' = IF ok THEN "cfg5" ELSE "cfg_failed"
               /\ failedAt' = IF ok THEN failedAt ELSE 4
    /\ UNCHANGED <<_tdirs, has_network, dry_run, tmpOnDisk, codename, branch, i, j, snap>>

\* step 5: the has_network test and its two arms
ConfigureBranch ==
    /\ UNCHANGED proberVars
    /\ pc = "cfg5"
    /\ \/ /\ TakesNetworkArm(has_network)
          /\ branch' = "network"
          /\ IF Exists(fs, ETC_APT, SOURCES_LIST)
             THEN /\ fs' = BranchNetwork(fs)
                  /\ oslog' = Append(oslog, Entry("rename", SOURCES_LIST, 0, TRUE))
                  /\ pc' = "cfg6"
                  /\ failedAt' = failedAt
             ELSE /\ fs' = fs              \* FileNotFoundError
                  /\ oslog' = Append(oslog, Entry("rename", SOURCES_LIST, 0, FALSE))
                  /\ pc' = "cfg_failed"
                  /\ failedAt' = 5
          /\ UNCHANGED <<_mounts, _tdirs, tmpOnDisk>>
       \/ /\ ~TakesNetworkArm(has_network)
          /\ branch' = "no_network"
          /\ SetupOverlay(BranchNoNetwork(fs), LISTS, 5, "cfg6")
    /\ UNCHANGED <<has_network, dry_run, cdromDir, codename, i, j, snap>>

\* step 6: codename = lsb_release()['codename']; write_file(sources.list)
ConfigureSourcesList ==
    /\ UNCHANGED proberVars
    /\ pc = "cfg6"
    /\ \E c \in Codenames, ok \in BOOLEAN :
         /\ codename' = c
         /\ fs' = IF ok THEN FsWrite(fs, ETC_APT, SOURCES_LIST, SourcesLine(c))
                  ELSE fs
         /\ oslog' = Append(oslog, Entry("write", SOURCES_LIST, 0, ok))
         /\ pc' = IF ok THEN "cfg7" ELSE "cfg_failed"
         /\ failedAt' = IF ok THEN failedAt ELSE 6
    /\ UNCHANGED <<_mounts, _tdirs, has_network, dry_run, tmpOnDisk, cdromDir,
                   branch, i, j, snap>>

\* step 7: curtin in-target -- apt-get update
ConfigureUpdate ==
    /\ UNCHANGED proberVars
    /\ pc = "cfg7"
    /\ \E ok \in BOOLEAN :
         /\ fs' = IF ok THEN AptGetUpdate(fs) ELSE fs
         /\ oslog' = Append(oslog, Entry("curtin", "apt-get update", 0, ok))
         /\ pc' = IF ok THEN "configured" ELSE "cfg_failed"
         /\ failedAt' = IF ok THEN failedAt ELSE 7
    /\ UNCHANGED <<_mounts, _tdirs, has_network, dry_run, tmpOnDisk, cdromDir,
                   codename, branch, i, j, snap>>

AfterUnmount == IF Len(_tdirs) = 0 THEN "d_rmdir" ELSE "d_rmtree"

\* the unmount loop: an error of the awaited umount leaves deconfigure
UnmountNextContinue(ok, remaining) ==
    IF remaining = 1 THEN AfterUnmount ELSE "d_unmount"

UnmountNext(ok, remaining) ==
    IF ~ok THEN "decfg_failed"
    ELSE IF remaining = 1 THEN AfterUnmount ELSE "d_unmount"

\* the caller invokes deconfigure after configure returned or raised
DeconfigureCall ==
    /\ UNCHANGED proberVars
    /\ pc \in {"configured", "cfg_failed"}
    /\ i' = Len(_mounts)
    /\ j' = 0
    /\ pc' = IF Len(_mounts) = 0 THEN AfterUnmount ELSE "d_unmount"
    /\ oslog' = Append(oslog, Entry("call", "deconfigure", 0, TRUE))
    /\ UNCHANGED <<_mounts, _tdirs, has_network, dry_run, fs, tmpOnDisk,
                   cdromDir, codename, branch, failedAt, snap>>

\* for m in reversed(self._mounts): await self.unmount(m)
DeconfigureUnmount ==
    /\ UNCHANGED proberVars
    /\ pc = "d_unmount"
    /\ LET m == UnmountOrder(_mounts)[Len(_mounts) - i + 1] IN
       \E ok \in {b \in BOOLEAN : b => IsMounted(fs, m)} :
         /\ fs' = IF ok THEN FsUmount(fs, m) ELSE fs
         /\ oslog' = Append(oslog, Entry("umount", m, 0, ok))
         /\ i' = IF ok THEN i - 1 ELSE i
         /\ pc' = UnmountNext(ok, i)
    /\ UNCHANGED <<_mounts, _tdirs, has_network, dry_run, tmpOnDisk, cdromDir,
                   codename, branch, failedAt, j, snap>>

\* for d in self._tdirs: shutil.rmtree(d)
DeconfigureRmtree ==
    /\ UNCHANGED proberVars
    /\ pc = "d_rmtree"
    /\ LET d == _tdirs[j + 1] IN
       \E ok \in {b \in BOOLEAN : b => d \in tmpOnDisk} :
         /\ tmpOnDisk' = IF ok THEN tmpOnDisk \ {d} ELSE tmpOnDisk
         /\ oslog' = Append(oslog, Entry("rmtree", "tmp", d, ok))
         /\ j' = IF ok THEN j + 1 ELSE j
         /\ pc' = IF ~ok THEN "decfg_failed"
                  ELSE IF j + 1 = Len(_tdirs) THEN "d_rmdir" ELSE "d_rmtree"
    /\ UNCHANGED <<_mounts, _tdirs, has_network, dry_run, fs, cdromDir,
                   codename, branch, failedAt, i, snap>>

\* if not self.app.opts.dry_run: os.rmdir(<target>/cdrom)
DeconfigureRmdir ==
    /\ UNCHANGED proberVars
    /\ pc = "d_rmdir"
    /\ IF RemovesMediaDir(dry_run)
       THEN LET ok == cdromDir /\ ~IsMounted(fs, CDROM) IN
            /\ cdromDir' = IF ok THEN FALSE ELSE cdromDir
            /\ oslog' = Append(oslog, Entry("rmdir", CDROM, 0, ok))
            /\ pc' = IF ok THEN "d_update" ELSE "decfg_failed"
       ELSE /\ pc' = "d_update"
            /\ UNCHANGED <<cdromDir, oslog>>
    /\ UNCHANGED <<_mounts, _tdirs, has_network, dry_run, fs, tmpOnDisk,
                   codename, branch, failedAt, i, j, snap>>

\* if has_network: curtin in-target -- apt-get update
DeconfigureUpdate ==
    /\ UNCHANGED proberVars
    /\ pc = "d_update"
    /\ \/ /\ RefreshWanted(has_network)
          /\ \E ok \in BOOLEAN :
               /\ fs' = IF ok THEN AptGetUpdate(fs) ELSE fs
               /\ oslog' = Append(oslog, Entry("curtin", "apt-get update", 0, ok))
               /\ pc' = IF ok THEN "deconfigured" ELSE "decfg_failed"
       \/ /\ ~RefreshWanted(has_network)
          /\ pc' = "deconfigured"
          /\ UNCHANGED <<fs, oslog>>
    /\ UNCHANGED <<_mounts, _tdirs, has_network, dry_run, tmpOnDisk, cdromDir,
                   codename, branch, failedAt, i, j, snap>>

\* the environment: network comes or goes while the coroutine is suspended
NetworkChange ==
    /\ UNCHANGED proberVars
    /\ pc \notin {"deconfigured", "decfg_failed"}
    /\ has_network' = ~has_network
    /\ UNCHANGED <<pc, _mounts, _tdirs, dry_run, fs, tmpOnDisk, cdromDir,
                   codename, branch, failedAt, i, j, oslog, snap>>

Next ==
    \/ ConfigureAptConfig
    \/ ConfigureEtcOverlay
    \/ ConfigureMediaMount
    \/ ConfigureBranch
    \/ ConfigureSourcesList
    \/ ConfigureUpdate
    \/ DeconfigureCall
    \/ DeconfigureUnmount
    \/ DeconfigureRmtree
    \/ DeconfigureRmdir
    \/ DeconfigureUpdate
    \/ NetworkChange

Spec == Init /\ [][Next]_vars

\* ------------------------------------------------- Prober on its own
\* Prober.__init__: saved_config is None or the parsed machine config
ProberInit ==
    /\ pc = "idle"
    /\ _mounts = <<>>
    /\ _tdirs = <<>>
    /\ has_network = FALSE
    /\ dry_run = TRUE
    /\ fs = [base |-> [d \in Dirs |-> EmptyDir], mounted |-> <<>>]
    /\ tmpOnDisk = {}
    /\ cdromDir = FALSE
    /\ codename = ""
    /\ branch = "none"
    /\ failedAt = NoStep
    /\ i = 0
    /\ j = 0
    /\ oslog = <<>>
    /\ snap = [etc0 |-> EmptyDir, lists0 |-> EmptyDir, etcStaged |-> EmptyDir,
               tmp0 |-> {}, cdrom0 |-> FALSE, net0 |-> FALSE]
    /\ \/ saved_config = NoConfig
       \/ \E K \in SUBSET ProbeKeys : \E st \in [K -> StorageValues] :
             saved_config = [loaded |-> TRUE, storage |-> st]
    /\ probe_types = NoneTypes
    /\ result = NoStorage
    /\ ncalls = 0

\* get_storage(probe_types) with a saved config
GetStorageSaved ==
    /\ saved_config.loaded
    /\ ncalls < MaxCalls
    /\ \E t \in ProbeTypeArgs :
         LET out == GetStorage(saved_config.storage, t) IN
         /\ probe_types' = t
         /\ result' = out.result
         /\ saved_config' = [saved_config EXCEPT !.storage = out.storage]
    /\ ncalls' = ncalls + 1
    /\ UNCHANGED aptVars

\* get_storage(probe_types) without one: Storage().probe(probe_types)
GetStorageProbed ==
    /\ ~saved_config.loaded
    /\ ncalls < MaxCalls
    /\ \E t \in ProbeTypeArgs :
         \E r \in [IF t.given THEN t.types ELSE ProbeKeys -> StorageValues] :
            /\ probe_types' = t
            /\ result' = r
    /\ ncalls' = ncalls + 1
    /\ UNCHANGED <<saved_config, aptVars>>

ProberNext ==
    \/ GetStorageSaved
    \/ GetStorageProbed

ProberSpec == ProberInit /\ [][ProberNext]_vars

\* ---------------------------------------------------- reading the history
OpsOf(op) == SelectSeq(oslog, LAMBDA e : e.op = op)

TargetsOf(log) == [n \in 1..Len(log) |-> log[n].target]

ArgsOf(log) == {log[n].arg : n \in 1..Len(log)}

AllOk(log) == \A n \in 1..Len(log) : log[n].ok

Flip(s) == [n \in 1..Len(s) |-> s[Len(s) + 1 - n]]

\* mountpoints whose mount command succeeded, in acquisition order
Acquired == TargetsOf(SelectSeq(oslog, LAMBDA e : e.op = "mount" /\ e.ok))

\* temp directories handed out by mkdtemp
Allocated == ArgsOf(OpsOf("mkdtemp"))

InDeconfigure == pc \in {"d_unmount", "d_rmtree", "d_rmdir", "d_update",
                         "deconfigured"}

\* the unmount loop of deconfigure ran to its end without an error
UnmountLoopDone ==
    /\ pc \in {"d_rmtree", "d_rmdir", "d_update", "deconfigured", "decfg_failed"}
    /\ i = 0

\* the rmtree loop of deconfigure ran to its end without an error
RmtreeLoopDone ==
    /\ UnmountLoopDone
    /\ j = Len(_tdirs)
    /\ pc # "d_rmtree"

DeconfigureRefreshed ==
    \E n \in 1..Len(oslog) :
       /\ oslog[n] = Entry("curtin", "apt-get update", 0, TRUE)
       /\ \E k \in 1..(n - 1) : oslog[k].op = "call"

\* ------------------------------------------------------------------ C1
\* C1: when every umount of deconfigure succeeded, the umount commands
\* issued are exactly the successfully mounted mountpoints, one each, in
\* the reverse of their acquisition order.
C1_ReverseUnmount ==
    UnmountLoopDone =>
        /\ AllOk(OpsOf("umount"))
        /\ TargetsOf(OpsOf("umount")) = Flip(Acquired)

C1_Witness ==
    /\ UnmountLoopDone
    /\ Acquired = <<ETC_APT, CDROM, LISTS>>
    /\ Len(OpsOf("umount")) = 3

\* ------------------------------------------------------------------ C2
\* C2: during deconfigure the ledger holds exactly the mounts that are still
\* mounted, and it is empty once deconfigure has completed.
C2_LedgerEmptied ==
    /\ InDeconfigure => _mounts = MountedPoints(fs)
    /\ pc = "deconfigured" => _mounts = <<>>

\* ------------------------------------------------------------------ C3
\* C3: after an aborted configure, deconfigure only touches what was
\* acquired (umount of a mounted point, rmtree of an allocated directory,
\* rmdir of a media directory that configure created) and does not fail on
\* its own account.  Stated for targets that had no media directory before
\* configure, so that only step 4 can have created it.
C3_TeardownOfAbortedConfigure ==
    (failedAt # NoStep /\ ~snap.cdrom0) =>
        /\ \A n \in 1..Len(oslog) :
              /\ oslog[n].op = "rmdir" =>
                    \E k \in 1..(n - 1) : oslog[k] = Entry("mkdir", CDROM, 0, TRUE)
              /\ oslog[n].op = "umount" =>
                    \E k \in 1..(n - 1) :
                       oslog[k].op = "mount" /\ oslog[k].ok
                       /\ oslog[k].target = oslog[n].target
              /\ oslog[n].op = "rmtree" => oslog[n].arg \in Allocated
        /\ pc = "decfg_failed" =>
              oslog[Len(oslog)].op \in {"umount", "rmtree", "curtin"}

\* ------------------------------------------------------------------ C4
FailedAtMediaMountCommand ==
    /\ failedAt = 4
    /\ \E n \in 1..Len(oslog) : oslog[n] = Entry("mount", CDROM, 0, FALSE)

MediaDirCreated ==
    \E n \in 1..Len(oslog) : oslog[n] = Entry("mkdir", CDROM, 0, TRUE)

\* C4 as stated: after a failed media mount command, deconfigure unmounts
\* only the etc/apt overlay and removes only its temp directory, and the
\* media mountpoint directory is neither created nor removed.
C4_MediaDirUntouched ==
    FailedAtMediaMountCommand =>
        /\ ~MediaDirCreated
        /\ OpsOf("rmdir") = <<>>
        /\ pc = "deconfigured" =>
              /\ OpsOf("umount") = <<Entry("umount", ETC_APT, 0, TRUE)>>
              /\ OpsOf("rmtree") = <<Entry("rmtree", "tmp", _tdirs[1], TRUE)>>

\* C4 amended: after a failed media mount command, the media mountpoint
\* directory has been created by configure; a completed deconfigure unmounts
\* only the etc/apt overlay, removes only its temp directory, and removes
\* the media mountpoint directory exactly when not in dry-run mode.
C4_MediaDirCreatedThenRemoved ==
    FailedAtMediaMountCommand =>
        /\ MediaDirCreated
        /\ pc = "deconfigured" =>
              /\ OpsOf("umount") = <<Entry("umount", ETC_APT, 0, TRUE)>>
              /\ Len(_tdirs) = 1
              /\ OpsOf("rmtree") = <<Entry("rmtree", "tmp", _tdirs[1], TRUE)>>
              /\ Allocated = {_tdirs[1]}
              /\ OpsOf("rmdir") = IF dry_run THEN <<>>
                                  ELSE <<Entry("rmdir", CDROM, 0, TRUE)>>
              /\ cdromDir = dry_run

C4_Witness ==
    /\ FailedAtMediaMountCommand
    /\ pc = "deconfigured"
    /\ dry_run
    /\ cdromDir

\* ------------------------------------------------------------------ C5
ConfiguredThenDeconfigured == pc = "deconfigured" /\ failedAt = NoStep

\* C5 as stated: after configure and deconfigure both completed, etc/apt
\* and var/lib/apt/lists have the contents they had before configure.
C5_RoundTripToEntry ==
    ConfiguredThenDeconfigured =>
        /\ Visible(fs, ETC_APT) = snap.etc0
        /\ Visible(fs, LISTS) = snap.lists0

\* C5 amended: after configure and deconfigure both completed, etc/apt has
\* the contents it had when its overlay was mounted (after apt-config);
\* var/lib/apt/lists has its contents from before configure when the
\* no-network arm was taken and deconfigure ran no refresh, and otherwise
\* holds the index of the last refresh that wrote to it unprotected.
C5_RoundTripToStaging ==
    ConfiguredThenDeconfigured =>
        /\ fs.mounted = <<>>
        /\ Visible(fs, ETC_APT) = snap.etcStaged
        /\ fs.base[ETC_APT] = snap.etcStaged
        /\ (branch = "no_network" /\ ~DeconfigureRefreshed) =>
              Visible(fs, LISTS) = snap.lists0
        /\ DeconfigureRefreshed =>
              Visible(fs, LISTS)[INDEX] =
                 snap.etcStaged[SOURCES_LIST] \o snap.etcStaged[ORIGINAL_LIST]
        /\ (branch = "network" /\ ~DeconfigureRefreshed) =>
              Visible(fs, LISTS)[INDEX] =
                 <<"deb", "[check-date=no]", "file:///cdrom", codename, "main",
                   "restricted", "\n">> \o snap.etcStaged[SOURCES_LIST]

C5_Witness ==
    /\ ConfiguredThenDeconfigured
    /\ branch = "no_network"
    /\ ~DeconfigureRefreshed
    /\ snap.etcStaged # snap.etc0
    /\ snap.etcStaged[APT_PROXY] # Absent
    /\ snap.lists0[INDEX] # Absent

\* ------------------------------------------------------------------ C6
\* C6: when the rmtree loop of deconfigure has run to its end, the
\* directories it removed are exactly the directories mkdtemp allocated,
\* each removed once, and the temp directories of others are still there.
C6_ExactlyAllocatedRemoved ==
    RmtreeLoopDone =>
        /\ AllOk(OpsOf("rmtree"))
        /\ ArgsOf(OpsOf("rmtree")) = Allocated
        /\ Len(OpsOf("rmtree")) = Cardinality(Allocated)
        /\ tmpOnDisk \cap Allocated = {}
        /\ tmpOnDisk = snap.tmp0

C6_Witness ==
    /\ RmtreeLoopDone
    /\ Cardinality(Allocated) = 2
    /\ snap.tmp0 # {}

\* ------------------------------------------------------------------ C7
ListsOverlayStaged ==
    \E n \in 1..Len(fs.mounted) :
       fs.mounted[n].mountpoint = LISTS /\ fs.mounted[n].type = "overlay"

OutcomeNetwork ==
    /\ Exists(fs, ETC_APT, ORIGINAL_LIST)
    /\ ~ListsOverlayStaged

OutcomeNoNetwork ==
    /\ ~Exists(fs, ETC_APT, APT_PROXY)
    /\ ListsOverlayStaged

\* C7: after a successful configure, the network arm left the renamed
\* source list and no overlay on the index cache, the no-network arm left
\* no proxy fragment and an overlay on the index cache, and exactly one of
\* the two outcomes holds.
C7_BranchOutcomes ==
    pc = "configured" =>
        /\ branch \in {"network", "no_network"}
        /\ branch = "network" => OutcomeNetwork /\ ~OutcomeNoNetwork
        /\ branch = "no_network" => OutcomeNoNetwork /\ ~OutcomeNetwork

C7_Witness ==
    /\ pc = "configured"
    /\ branch = "no_network"
    /\ fs.base[ETC_APT][APT_PROXY] # Absent
    /\ OutcomeNoNetwork

MountsBefore(k) ==
    IF k <= 3 THEN <<>>
    ELSE IF k = 4 THEN <<ETC_APT>>
    ELSE IF k = 5 \/ branch = "network" THEN <<ETC_APT, CDROM>>
    ELSE <<ETC_APT, CDROM, LISTS>>

TdirsBefore(k) ==
    IF k <= 3 THEN 0
    ELSE IF k <= 5 \/ branch = "network" THEN 1
    ELSE 2

NoRollback ==
    /\ OpsOf("umount") = <<>>
    /\ OpsOf("rmtree") = <<>>
    /\ OpsOf("rmdir") = <<>>
    /\ ~oslog[Len(oslog)].ok

\* the failing operation is the mount command of a setup_overlay
OverlayMountFailed ==
    /\ oslog[Len(oslog)].op = "mount"
    /\ oslog[Len(oslog)].target \in Dirs

\* C10 as stated: a failed configure stops at the failure, undoes nothing,
\* and the ledger and the pool hold what the steps before the failing step
\* acquired.
C10_HoldsEarlierSteps ==
    pc = "cfg_failed" =>
        /\ NoRollback
        /\ _mounts = MountsBefore(failedAt)
        /\ Len(_tdirs) = TdirsBefore(failedAt)

\* C10 amended: a failed configure stops at the failure, undoes nothing,
\* and the ledger and the pool hold what was acquired up to the failure:
\* that of the earlier steps and, when an overlay mount command failed, the
\* temp directory the failing step had allocated for it.
C10_HoldsUpToFailure ==
    pc = "cfg_failed" =>
        /\ NoRollback
        /\ failedAt \in 2..7
        /\ _mounts = MountsBefore(failedAt)
        /\ _mounts = MountedPoints(fs)
        /\ Len(_tdirs) = TdirsBefore(failedAt)
                         + (IF OverlayMountFailed THEN 1 ELSE 0)
        /\ {_tdirs[n] : n \in 1..Len(_tdirs)} = Allocated
        /\ Allocated \subseteq tmpOnDisk

C10_Witness ==
    /\ pc = "cfg_failed"
    /\ failedAt = 5
    /\ OverlayMountFailed
    /\ Len(_tdirs) = 2
    /\ Len(_mounts) = 2

\* ----------------------------------------------------------------- C11
TdirSet == {_tdirs[n] : n \in 1..Len(_tdirs)}

RmtreeFailed == \E n \in 1..Len(oslog) : oslog[n].op = "rmtree" /\ ~oslog[n].ok

\* C11: when a removal fails during deconfigure, the removal of every
\* recorded temp directory has nevertheless been attempted by the time
\* deconfigure ends.
C11_EveryRemovalAttempted ==
    (pc = "decfg_failed" /\ RmtreeFailed) =>
        ArgsOf(OpsOf("rmtree")) = TdirSet

\* ----------------------------------------------------------------- C12
\* C12: the arm configure takes is the one for the value
\* has_network had when configure was entered.
C12_BranchFromEntry ==
    branch # "none" => (branch = "network") = snap.net0

\* ----------------------------------------------------------------- C13
\* C13: no mountpoint appears twice in the ledger.
C13_NoDuplicateMountpoint ==
    \A a, b \in 1..Len(_mounts) : a # b => _mounts[a] # _mounts[b]

C13_Witness ==
    /\ Len(_mounts) = 3
    /\ pc = "d_rmtree"
    /\ fs.mounted = <<>>

\* ----------------------------------------------------------------- C14
\* C14: a step whose mount command succeeds appends that mountpoint to the
\* end of the ledger and changes nothing else in it; a step whose mount
\* command fails leaves the ledger as it was and configure raises; a step
\* without a mount command leaves the ledger as it was.
C14_MountAppendsIffOk ==
    [][LET n == Len(oslog')
           mounting == n > Len(oslog) /\ oslog'[n].op = "mount"
       IN /\ (mounting /\ oslog'[n].ok) =>
                /\ _mounts' = Append(_mounts, oslog'[n].target)
                /\ pc' # "cfg_failed"
          /\ (mounting /\ ~oslog'[n].ok) =>
                /\ _mounts' = _mounts
                /\ pc' = "cfg_failed"
          /\ ~mounting => _mounts' = _mounts]_vars

C14_Witness ==
    /\ pc = "cfg_failed"
    /\ oslog[Len(oslog)] = Entry("mount", CDROM, 0, FALSE)
    /\ _mounts = <<ETC_APT>>
    /\ cdromDir

\* ----------------------------------------------------------------- C15
\* the part of the history that follows the call of deconfigure
RECURSIVE CallIndex(_)
CallIndex(n) ==
    IF n = 0 THEN 0
    ELSE IF oslog[n].op = "call" THEN n
    ELSE CallIndex(n - 1)

DeconfigureLog ==
    IF CallIndex(Len(oslog)) = 0 THEN <<>>
    ELSE SubSeq(oslog, CallIndex(Len(oslog)) + 1, Len(oslog))

RefreshesInDeconfigure ==
    SelectSeq(DeconfigureLog, LAMBDA e : e.op = "curtin")

\* C15: a failed umount is the last thing deconfigure does: no further
\* umount, no rmtree, no rmdir of the media directory, no refresh.
C15_UnmountFailFast ==
    \A n \in 1..Len(oslog) :
       (oslog[n].op = "umount" /\ ~oslog[n].ok) =>
           /\ n = Len(oslog)
           /\ pc = "decfg_failed"
           /\ OpsOf("rmtree") = <<>>
           /\ OpsOf("rmdir") = <<>>
           /\ RefreshesInDeconfigure = <<>>
           /\ TdirSet \subseteq tmpOnDisk

C15_Witness ==
    /\ pc = "decfg_failed"
    /\ OpsOf("umount") = <<Entry("umount", LISTS, 0, TRUE),
                           Entry("umount", CDROM, 0, FALSE)>>
    /\ ~dry_run
    /\ has_network
    /\ cdromDir

\* ----------------------------------------------------------------- C16
\* C16: deconfigure runs the refresh exactly when has_network holds at the
\* moment it tests it, at most once, and only once every mount is unmounted
\* and every temp directory removed.
C16_RefreshFollowsCurrentNetwork ==
    [][/\ (pc = "d_update" /\ pc' # "d_update") =>
             /\ has_network =>
                   /\ Len(oslog') = Len(oslog) + 1
                   /\ oslog'[Len(oslog')].op = "curtin"
             /\ ~has_network => oslog' = oslog /\ pc' = "deconfigured"
       /\ (pc # "d_update" /\ CallIndex(Len(oslog)) # 0) => oslog'[Len(oslog')].op # "curtin"
       /\ (/\ Len(RefreshesInDeconfigure) <= 1
           /\ RefreshesInDeconfigure # <<>> =>
                 /\ fs.mounted = <<>>
                 /\ TargetsOf(OpsOf("umount")) = Flip(_mounts)
                 /\ AllOk(OpsOf("umount"))
                 /\ ArgsOf(OpsOf("rmtree")) = TdirSet
                 /\ AllOk(OpsOf("rmtree"))
                 /\ tmpOnDisk \cap TdirSet = {})']_vars

C16_Witness ==
    /\ pc = "deconfigured"
    /\ branch = "no_network"
    /\ RefreshesInDeconfigure = <<Entry("curtin", "apt-get update", 0, TRUE)>>
    /\ Len(_mounts) = 3

\* ----------------------------------------------------------------- C17
EtcOverlayMounted == TopOverlay(fs.mounted, ETC_APT, Len(fs.mounted)) # 0

\* C17: apt-config runs while nothing is mounted; after it, no step changes
\* the lower contents of etc/apt, and the steps that change what is visible
\* in etc/apt (rename, unlink, write) run with the etc/apt overlay mounted.
C17_StagerChangesAboveOverlay ==
    [][/\ pc = "idle" => fs.mounted = <<>> /\ fs'.mounted = <<>>
       /\ pc # "idle" => fs'.base[ETC_APT] = fs.base[ETC_APT]
       /\ (pc \in {"cfg5", "cfg6"}
           /\ Visible(fs', ETC_APT) # Visible(fs, ETC_APT)) => EtcOverlayMounted
       /\ (pc \notin {"idle", "cfg3"} /\ failedAt # 2) =>
             fs.base[ETC_APT] = snap.etcStaged]_vars

C17_Witness ==
    /\ pc = "configured"
    /\ branch = "no_network"
    /\ fs.base[ETC_APT][APT_PROXY] # Absent
    /\ ~Exists(fs, ETC_APT, APT_PROXY)
    /\ fs.base[ETC_APT][SOURCES_LIST] = MirrorText
    /\ Visible(fs, ETC_APT)[SOURCES_LIST] # MirrorText

\* ----------------------------------------------------------------- C18
OverlayMounts == SelectSeq(oslog, LAMBDA e : e.op = "mount" /\ e.arg # 0)

\* C18: every overlay mount command is preceded, in this order, by the
\* allocation of its temp directory and the creation of work and upper in
\* it; each setup_overlay allocates one directory and records it, also when
\* the mount command fails, and only successful mounts are recorded.
C18_OverlaySetupOrder ==
    /\ \A n \in 1..Len(oslog) :
          (oslog[n].op = "mount" /\ oslog[n].arg # 0) =>
              /\ n > 3
              /\ oslog[n - 3] = Entry("mkdtemp", "tmp", oslog[n].arg, TRUE)
              /\ oslog[n - 2] = Entry("mkdir", "work", oslog[n].arg, TRUE)
              /\ oslog[n - 1] = Entry("mkdir", "upper", oslog[n].arg, TRUE)
              /\ oslog[n].arg \in TdirSet
    /\ Len(OpsOf("mkdtemp")) = Len(OverlayMounts)
    /\ Len(_tdirs) = Len(OverlayMounts)
    /\ Cardinality(TdirSet) = Len(_tdirs)
    /\ Len(_mounts) = Len(Acquired)

C18_Witness ==
    /\ pc = "deconfigured"
    /\ failedAt = 3
    /\ Len(_tdirs) = 1
    /\ _mounts = <<>>
    /\ OpsOf("rmtree") = <<Entry("rmtree", "tmp", _tdirs[1], TRUE)>>

\* ----------------------------------------------------------------- C19
\* C19: deconfigure removes the media directory exactly when not in dry-run
\* mode and only after the unmount loop; configure creates it in either
\* mode, so after a dry-run cycle it is still there.
C19_MediaDirRemoval ==
    /\ OpsOf("rmdir") # <<>> =>
          /\ ~dry_run
          /\ UnmountLoopDone
          /\ Len(OpsOf("rmdir")) = 1
          /\ ~IsMounted(fs, CDROM)
    /\ pc \in {"d_update", "deconfigured"} =>
          (OpsOf("rmdir") = <<Entry("rmdir", CDROM, 0, TRUE)>>) = ~dry_run
    /\ pc \in {"d_update", "deconfigured"} /\ ~dry_run => ~cdromDir
    /\ pc = "configured" => MediaDirCreated /\ cdromDir
    /\ (dry_run /\ MediaDirCreated) => cdromDir

C19_Witness ==
    /\ pc = "deconfigured"
    /\ failedAt = NoStep
    /\ dry_run
    /\ cdromDir
    /\ ~snap.cdrom0

\* ----------------------------------------------------------------- C20
\* C20: with a saved config, get_storage returns a mapping with the keys of
\* the saved storage section in which a key of probe_types (every key when
\* probe_types is None) has its saved value and any other key has the empty
\* mapping, and the saved config is the same after the call as before.
C20_GetStorageFiltersCopy ==
    [][(saved_config.loaded /\ ncalls' = ncalls + 1) =>
          /\ DOMAIN result' = DOMAIN saved_config.storage
          /\ \A k \in DOMAIN saved_config.storage :
                result'[k] = IF ~probe_types'.given \/ k \in probe_types'.types
                             THEN saved_config.storage[k]
                             ELSE {}
          /\ saved_config' = saved_config]_vars

C20_Witness ==
    /\ saved_config.loaded
    /\ ncalls = 2
    /\ DOMAIN saved_config.storage = ProbeKeys
    /\ probe_types.given
    /\ \E k \in DOMAIN result : result[k] = {} /\ saved_config.storage[k] # {}
    /\ \E k \in DOMAIN result : result[k] # {}

====
